---------------------------- MODULE Spec2Model ----------------------------
(***************************************************************************)
(* GestureVault backend: the User and Gesture mongoose models, the login   *)
(* and gesture-validation routes and the per-route rate limiter.  A        *)
(* request is followed from the point where its router receives it with a  *)
(* parsed body; the store holds documents from the start.                  *)
(*                                                                         *)
(* Time is counted in ticks of TickMs milliseconds (Date.now() \div        *)
(* TickMs); several operations may happen within one tick.  Coordinates    *)
(* are in hundredths of the camera unit, timestamps in milliseconds,       *)
(* tolerances in hundredths.                                               *)
(***************************************************************************)
EXTENDS Integers, Sequences, FiniteSets, TLC

VARIABLES
    now,            \* Date.now(), in ticks
    users,          \* the users collection: identity -> document
    gestures,       \* the gestures collection: _id -> template document
    limiter,        \* rateLimitByUser's Map of the login route: ip -> entry
    reqs,           \* requests in flight: slot -> position and local variables
    failStreak,     \* history: consecutive login validations of samples outside
                    \*   the tolerances, counted up to LockThreshold
    lastOp,         \* history: the operation that produced this state
    probe           \* arguments and result of a direct Gesture method call

vars == <<now, users, gestures, limiter, reqs, failStreak, lastOp, probe>>

-----------------------------------------------------------------------------
(* Bounds of the model *)

MaxTime == 11
ServerMaxTime == 2
MaxReq == 2
MaxLoginAttempts == 7
MaxRateCount == 6
MaxLen == 3
MaxUses == 2
MaxFrames == 4
MaxEvents == 2
MaxDays == 1
MaxFailures == 10
MaxClientTime == 3
MaxCalls == 7
MaxRecorderTime == 3

(* Program constants *)

LockThreshold == 5
RateMax == 5
DefaultTolPosition == 15
DefaultTolTiming == 20
MinPositions == 3
MaxPositions == 10
MaxAcceleration == 100
MinDuration == 1000
MaxDuration == 10000
maxLoginAttempts == 5
EventCap == 1000
retryAttempts == 3
recordingTimeout == 10000

TickMs == 15 * 60 * 1000
LockDuration == (2 * 60 * 60 * 1000) \div TickMs
RateWindow == (15 * 60 * 1000) \div TickMs

\* null for a Date or Number field (all real values are >= 0)
NULL == 0 - 1

Max(a, b) == IF a >= b THEN a ELSE b
Min(a, b) == IF a <= b THEN a ELSE b
Abs(a) == IF a >= 0 THEN a ELSE 0 - a

Identities == {"alice"}
Identifiers == Identities \cup {"nobody"}
Ips == {"ip1"}
Req == 1..MaxReq
GIdSeq == <<"g1", "g2">>
GIds == {GIdSeq[i] : i \in 1..Len(GIdSeq)}
NoId == "null"

-----------------------------------------------------------------------------
(* Gesture samples *)

P0 == <<0, 0, 0>>
PNear == <<10, 10, 0>>
PEdge == <<20, 0, 0>>
PFar == <<0, 20, 0>>

SampleA == [positions |-> <<P0, P0, P0>>, timing |-> <<0, 500, 1000>>]
SampleFar == [positions |-> <<P0, PFar, P0>>, timing |-> <<0, 500, 1000>>]
SampleShort == [positions |-> <<P0, PFar>>, timing |-> <<0, 1000>>]
SampleUneven == [positions |-> <<P0, P0, P0>>, timing |-> <<0, 500, 1000, 1500>>]
SampleStill == [positions |-> <<P0, P0, P0>>, timing |-> <<500, 500, 500>>]

\* The sample alice's template was recorded from.
StoredSample == SampleA
\* The samples sent to the login route, and to the gesture routes.
LiveSamples == {SampleA, SampleFar, SampleShort, SampleStill}
GestureSamples == {SampleA, SampleFar, SampleShort, SampleUneven}

-----------------------------------------------------------------------------
(* The User model *)

\* A document as the schema defaults leave it: loginAttempts 0, lockUntil
\* and lastLogin null.  A field removed by $unset reads back as its default.
NewUser ==
    [exists |-> TRUE, isActive |-> TRUE, gesturePassword |-> NoId,
     loginAttempts |-> 0, lockUntil |-> NULL, lastLogin |-> NULL,
     totalLogins |-> 0, successfulLogins |-> 0]

\* What findOne returns when no document matches.
NoUser == [NewUser EXCEPT !.exists = FALSE]

\* A variant that reads a lock as held once its time has passed.
isLocked_past(u, t) == u.lockUntil # NULL /\ u.lockUntil < t

\* The virtual isLocked, read at time t.
isLocked(u, t) == u.lockUntil # NULL /\ u.lockUntil > t

NoUpdate ==
    [inc |-> 0, setAttempts |-> NULL, unsetAttempts |-> FALSE,
     setLock |-> NULL, unsetLock |-> FALSE, setLastLogin |-> NULL]

\* A variant that keeps counting from the old value when the lock has expired.
incLoginAttempts_continue(this, t) ==
    [NoUpdate EXCEPT
        !.inc = 1,
        !.setLock = IF this.loginAttempts + 1 >= LockThreshold /\ ~isLocked(this, t)
                    THEN t + LockDuration ELSE NULL]

\* incLoginAttempts: the update it sends, computed from the document in
\* memory (this) at time t.
incLoginAttempts(this, t) ==
    IF this.lockUntil # NULL /\ this.lockUntil < t
    THEN [NoUpdate EXCEPT !.unsetLock = TRUE, !.setAttempts = 1]
    ELSE [NoUpdate EXCEPT
            !.inc = 1,
            !.setLock = IF this.loginAttempts + 1 >= LockThreshold /\ ~isLocked(this, t)
                        THEN t + LockDuration ELSE NULL]

\* resetLoginAttempts: the update it sends at time t.
resetLoginAttempts(this, t) ==
    [NoUpdate EXCEPT !.unsetAttempts = TRUE, !.unsetLock = TRUE, !.setLastLogin = t]

\* updateOne: the store applies the update to the stored document d.
updateOne(d, upd) ==
    [d EXCEPT
        !.loginAttempts = IF upd.unsetAttempts THEN 0
                          ELSE IF upd.setAttempts # NULL THEN upd.setAttempts
                          ELSE @ + upd.inc,
        !.lockUntil = IF upd.setLock # NULL THEN upd.setLock
                      ELSE IF upd.unsetLock THEN NULL
                      ELSE @,
        !.lastLogin = IF upd.setLastLogin # NULL THEN upd.setLastLogin ELSE @]

-----------------------------------------------------------------------------
(* The Gesture model *)

\* gestureData is a string: either the hex ciphertext encryptGestureData
\* produces or any other text.  form tells which; sample is the plaintext.
encryptGestureData(data) == [form |-> "cipher", sample |-> data]
JSONstringify(data) == [form |-> "json", sample |-> data]

\* A variant that hands back whatever the text holds instead of throwing.
decryptGestureData_lenient(this) ==
    [threw |-> FALSE, value |-> this.gestureData.sample]

\* decryptGestureData: deciphering text that is no ciphertext throws
\* 'Failed to decrypt gesture data'.
decryptGestureData(this) ==
    [threw |-> this.gestureData.form # "cipher", value |-> this.gestureData.sample]

NewStats ==
    [totalAttempts |-> 0, successfulAttempts |-> 0, failedAttempts |-> 0,
     lastUsed |-> NULL]

NewGesture(userId, data) ==
    [exists |-> TRUE,
     userId |-> userId,
     gestureData |-> data,
     tolerance |-> [position |-> DefaultTolPosition, timing |-> DefaultTolTiming],
     usageStats |-> NewStats,
     isActive |-> TRUE]

\* What findOne returns when no document matches.
NoGesture ==
    [NewGesture("none", JSONstringify(SampleA)) EXCEPT !.exists = FALSE, !.isActive = FALSE]

\* Squared 3-D distance; distance > tolerance is compared on the squares.
DistSq(a, b) ==
    (a[1] - b[1]) * (a[1] - b[1]) + (a[2] - b[2]) * (a[2] - b[2])
    + (a[3] - b[3]) * (a[3] - b[3])

\* comparePositions: the loop from index i (1-based here), returning false at
\* the first position farther than the tolerance.
RECURSIVE comparePositionsFrom(_, _, _, _)
comparePositionsFrom(stored, input, tol, i) ==
    IF i > Min(Len(stored), Len(input)) THEN TRUE
    ELSE IF DistSq(stored[i], input[i]) > tol * tol THEN FALSE
    ELSE comparePositionsFrom(stored, input, tol, i + 1)

\* A variant that also rejects a position exactly at the tolerance.
comparePositions_inclusive(stored, input, tol) ==
    \A i \in 1..Min(Len(stored), Len(input)) :
        DistSq(stored[i], input[i]) < tol * tol

comparePositions(stored, input, tol) == comparePositionsFrom(stored, input, tol, 1)

\* relativeDiff > tolerance, with timeDiff / stored[i] in IEEE arithmetic:
\* 0/0 is NaN and compares false, x/0 is Infinity and compares true.
TimingExceeds(s, l, tol) ==
    IF s = 0 THEN l # 0
    ELSE IF s > 0 THEN Abs(s - l) * 100 > tol * s
    ELSE FALSE

RECURSIVE compareTimingFrom(_, _, _, _)
compareTimingFrom(stored, input, tol, i) ==
    IF i > Min(Len(stored), Len(input)) THEN TRUE
    ELSE IF TimingExceeds(stored[i], input[i], tol) THEN FALSE
    ELSE compareTimingFrom(stored, input, tol, i + 1)

\* A variant that skips an index whose stored timestamp is zero.
compareTiming_skipZero(stored, input, tol) ==
    \A i \in 1..Min(Len(stored), Len(input)) :
        stored[i] = 0 \/ ~TimingExceeds(stored[i], input[i], tol)

compareTiming(stored, input, tol) == compareTimingFrom(stored, input, tol, 1)

\* A variant that computes a confidence.
calculateConfidence_defined(this, stored, input) == [threw |-> FALSE, value |-> 100]

\* calculateConfidence calls this.calculatePositionConfidence and
\* this.calculateTimingConfidence, which the schema does not define: the call
\* raises a TypeError.
calculateConfidence(this, stored, input) == [threw |-> TRUE, value |-> 0]

\* Line 151: success = positionMatch && timingMatch.
gestureSuccess(this, stored, input) ==
    comparePositions(stored.positions, input.positions, this.tolerance.position)
    /\ compareTiming(stored.timing, input.timing, this.tolerance.timing)

\* validateGesture at time t: what it returns, or that it threw, and the
\* document as its save() writes it.  Every exception inside is rethrown as
\* 'Gesture validation failed'; the stats are touched only after the
\* confidence has been computed.
ValidationThrew(this) ==
    [threw |-> TRUE, success |-> FALSE, confidence |-> 0, doc |-> this]

\* A variant that reports the template's past success rate as confidence.
validateGesture_pastRate(this, input, t) ==
    LET stored == decryptGestureData(this) IN
    IF stored.threw THEN ValidationThrew(this)
    ELSE [threw |-> FALSE,
          success |-> gestureSuccess(this, stored.value, input),
          confidence |-> (100 * this.usageStats.successfulAttempts)
                            \div Max(1, this.usageStats.totalAttempts),
          doc |-> this]

validateGesture(this, input, t) ==
    LET stored == decryptGestureData(this) IN
    IF stored.threw THEN ValidationThrew(this)
    ELSE LET success == gestureSuccess(this, stored.value, input)
             confidence == calculateConfidence(this, stored.value, input)
         IN IF confidence.threw THEN ValidationThrew(this)
            ELSE [threw |-> FALSE, success |-> success, confidence |-> confidence.value,
                  doc |-> [this EXCEPT
                      !.usageStats.totalAttempts = @ + 1,
                      !.usageStats.successfulAttempts = IF success THEN @ + 1 ELSE @,
                      !.usageStats.failedAttempts = IF success THEN @ ELSE @ + 1,
                      !.usageStats.lastUsed = t]]

\* What save() writes after validateGesture changed the document in memory:
\* the modified usageStats paths, with the values held in memory.
saveStats(d, mem, success) ==
    [d EXCEPT
        !.usageStats.totalAttempts = mem.usageStats.totalAttempts,
        !.usageStats.successfulAttempts =
            IF success THEN mem.usageStats.successfulAttempts ELSE @,
        !.usageStats.failedAttempts =
            IF success THEN @ ELSE mem.usageStats.failedAttempts,
        !.usageStats.lastUsed = mem.usageStats.lastUsed]

\* findByUser: findOne({userId, isActive: true}), the first match in
\* insertion order, or null.
findByUserId(g, id) ==
    LET hits == {i \in 1..Len(GIdSeq) :
                    /\ g[GIdSeq[i]].exists
                    /\ g[GIdSeq[i]].userId = id
                    /\ g[GIdSeq[i]].isActive}
    IN IF hits = {} THEN NoId
       ELSE GIdSeq[CHOOSE i \in hits : \A j \in hits : i <= j]

findByUser(g, id) ==
    IF findByUserId(g, id) = NoId THEN NoGesture ELSE g[findByUserId(g, id)]

\* populate('gesturePassword'): the referenced template, or null.
populate(g, u) ==
    IF u.exists /\ u.gesturePassword # NoId /\ g[u.gesturePassword].exists
    THEN g[u.gesturePassword] ELSE NoGesture

\* The express-validator chain of the gesture routes:
\* positions and timing are arrays of 3 to 10 entries.
ValidShape(input) ==
    /\ Len(input.positions) >= MinPositions /\ Len(input.positions) <= MaxPositions
    /\ Len(input.timing) >= MinPositions /\ Len(input.timing) <= MaxPositions

-----------------------------------------------------------------------------
(* The SecurityManager's anti-spoofing check *)

RECURSIVE Sum(_)
Sum(seq) == IF seq = <<>> THEN 0 ELSE Head(seq) + Sum(Tail(seq))

\* Math.sqrt, rounded down to a whole number.
RECURSIVE IsqrtFrom(_, _)
IsqrtFrom(n, x) ==
    LET y == (x + n \div x) \div 2
    IN IF y >= x THEN x ELSE IsqrtFrom(n, y)

Isqrt(n) == IF n = 0 THEN 0 ELSE IsqrtFrom(n, n)

NotSuspicious == [suspicious |-> FALSE, severity |-> "none", reason |-> "none"]

\* checkDepthConsistency: the average variation, with 0 for the first
\* entry, is above 0.1 (depths in hundredths); 0/0 for no entries is NaN and
\* compares false.
checkDepthConsistency(depthData) ==
    LET n == Len(depthData)
        variations == [i \in 1..n |->
                         IF i = 1 THEN 0 ELSE Abs(depthData[i] - depthData[i - 1])]
    IN n > 0 /\ Sum(variations) > 10 * n

\* analyzeMotionPatterns: some change of velocity between consecutive
\* positions is above 100 (positions in hundredths).
analyzeMotionPatterns(motionData) ==
    LET n == Len(motionData)
        velocities == [i \in 1..n |->
                         IF i = 1 THEN 0
                         ELSE Isqrt(DistSq(motionData[i], motionData[i - 1]))]
        accelerationChanges == [i \in 1..n |->
                         IF i = 1 THEN 0 ELSE Abs(velocities[i] - velocities[i - 1])]
    IN IF \E i \in 1..n : accelerationChanges[i] > MaxAcceleration * 100
       THEN [suspicious |-> TRUE, severity |-> "medium", reason |-> "unnatural_acceleration"]
       ELSE NotSuspicious

\* analyzeTimingPatterns: the variance of the intervals, with an interval 0
\* for the first entry, is below 0.01.  With n intervals of sum S and sum of
\* squares Q the variance is (n * Q - S * S) / (n * n); for no entries it
\* is NaN and compares false.
analyzeTimingPatterns(timingData) ==
    LET n == Len(timingData)
        intervals == [i \in 1..n |->
                        IF i = 1 THEN 0 ELSE timingData[i] - timingData[i - 1]]
        total == Sum(intervals)
        squares == Sum([i \in 1..n |-> intervals[i] * intervals[i]])
    IN IF n > 0 /\ 100 * (n * squares - total * total) < n * n
       THEN [suspicious |-> TRUE, severity |-> "high", reason |-> "too_perfect_timing"]
       ELSE NotSuspicious

\* What performAntiSpoofingCheck resolves to (pass), the security event it
\* records, and whether its catch block ran (caught).
Verdict(pass, event, analysis) ==
    [pass |-> pass, event |-> event, severity |-> analysis.severity,
     reason |-> analysis.reason, caught |-> FALSE]

\* performAntiSpoofingCheck.  motionData.map or timingData.map on a missing
\* field raises a TypeError inside the try block; the catch block logs it
\* and returns true.
performAntiSpoofingCheck(this, gestureData) ==
    IF ~this.antiSpoofingEnabled THEN Verdict(TRUE, "none", NotSuspicious)
    ELSE IF gestureData.hasDepth /\ ~checkDepthConsistency(gestureData.depthData)
    THEN Verdict(FALSE, "depth_inconsistency_detected",
                 [severity |-> "high", reason |-> "possible_spoofing"])
    ELSE IF ~gestureData.hasMotion
    THEN [Verdict(TRUE, "none", NotSuspicious) EXCEPT !.caught = TRUE]
    ELSE IF analyzeMotionPatterns(gestureData.motionData).suspicious
    THEN Verdict(FALSE, "suspicious_motion_pattern",
                 analyzeMotionPatterns(gestureData.motionData))
    ELSE IF ~gestureData.hasTiming
    THEN [Verdict(TRUE, "none", NotSuspicious) EXCEPT !.caught = TRUE]
    ELSE IF analyzeTimingPatterns(gestureData.timingData).suspicious
    THEN Verdict(FALSE, "suspicious_timing_pattern",
                 analyzeTimingPatterns(gestureData.timingData))
    ELSE Verdict(TRUE, "none", NotSuspicious)

-----------------------------------------------------------------------------
(* The SecurityManager's threat level, event log and client-side lockout *)

\* The client's clock counts ticks of five minutes.
ClientTickMs == 5 * 60 * 1000
lockoutDuration == (15 * 60 * 1000) \div ClientTickMs
CleanupAge == 86400000 \div ClientTickMs

levels == <<"low", "medium", "high", "critical">>

\* levels.indexOf(level), counted from 1; 0 when level is not in the list.
indexOf(level) ==
    IF \E i \in 1..Len(levels) : levels[i] = level
    THEN CHOOSE i \in 1..Len(levels) : levels[i] = level
    ELSE 0

\* The fields the constructor sets.
NewSecurityManager ==
    [threatLevel |-> "low",
     securityEvents |-> <<>>,
     suspiciousActivities |-> <<>>,
     failedAttempts |-> [id \in Identities |-> [has |-> FALSE, attempts |-> <<>>]],
     antiSpoofingEnabled |-> TRUE]

\* array.filter(x => x.timestamp > cutoffTime)
RECURSIVE After(_, _)
After(entries, cutoffTime) ==
    IF entries = <<>> THEN <<>>
    ELSE IF Head(entries).timestamp > cutoffTime
         THEN <<Head(entries)>> \o After(Tail(entries), cutoffTime)
         ELSE After(Tail(entries), cutoffTime)

\* recordSecurityEvent at time t: the event carries the current threat
\* level; the log keeps its last EventCap entries.
recordSecurityEvent(this, eventType, t) ==
    LET event == [type |-> eventType, timestamp |-> t, threatLevel |-> this.threatLevel]
        pushed == Append(this.securityEvents, event)
    IN [this EXCEPT !.securityEvents =
           IF Len(pushed) > EventCap
           THEN SubSeq(pushed, Len(pushed) - EventCap + 1, Len(pushed))
           ELSE pushed]

\* A variant that sets whatever level it is given.
raiseThreatLevel_assign(this, level, t) ==
    IF level # this.threatLevel
    THEN recordSecurityEvent([this EXCEPT !.threatLevel = level], "threat_level_raised", t)
    ELSE this

raiseThreatLevel(this, level, t) ==
    IF indexOf(level) > indexOf(this.threatLevel)
    THEN recordSecurityEvent([this EXCEPT !.threatLevel = level], "threat_level_raised", t)
    ELSE this

\* handleSuspiciousActivity; the alert it triggers leaves the manager as it
\* is.
handleSuspiciousActivity(this, activity, t) ==
    LET noted == [this EXCEPT !.suspiciousActivities =
                     Append(@, [type |-> activity.type, severity |-> activity.severity,
                                timestamp |-> t])]
    IN IF activity.severity = "high" THEN raiseThreatLevel(noted, "high", t)
       ELSE IF activity.severity = "medium" THEN raiseThreatLevel(noted, "medium", t)
       ELSE noted

\* cleanupOldData at time t: entries not younger than 24 hours go.
cleanupOldData(this, t) ==
    LET cutoffTime == t - CleanupAge
    IN [this EXCEPT
          !.securityEvents = After(@, cutoffTime),
          !.suspiciousActivities = After(@, cutoffTime),
          !.failedAttempts = [id \in Identities |->
              IF ~@[id].has THEN @[id]
              ELSE IF After(@[id].attempts, cutoffTime) = <<>>
                   THEN [has |-> FALSE, attempts |-> <<>>]
                   ELSE [has |-> TRUE, attempts |-> After(@[id].attempts, cutoffTime)]]]

\* failedAttempts.get(userId) || [], filtered to the last lockoutDuration.
recentAttempts(this, userId, t) ==
    After(IF this.failedAttempts[userId].has
          THEN this.failedAttempts[userId].attempts ELSE <<>>,
          t - lockoutDuration)

isAccountLocked(this, userId, t) ==
    Len(recentAttempts(this, userId, t)) >= maxLoginAttempts

\* lockAccount without its timer, which the caller starts.
lockAccount(this, userId, t) == recordSecurityEvent(this, "account_locked", t)

unlockAccount(this, userId, t) ==
    recordSecurityEvent(
        [this EXCEPT !.failedAttempts[userId] = [has |-> FALSE, attempts |-> <<>>]],
        "account_unlocked", t)

\* recordFailedAttempt at time t; locks says whether lockAccount ran.
recordFailedAttempt(this, attemptData, t) ==
    LET pushed == [this EXCEPT !.failedAttempts[attemptData.userId] =
                      [has |-> TRUE,
                       attempts |-> Append(@.attempts,
                                           [ip |-> attemptData.ip,
                                            timestamp |-> attemptData.timestamp])]]
        recent == recentAttempts(pushed, attemptData.userId, t)
        kept == [pushed EXCEPT !.failedAttempts[attemptData.userId].attempts = recent]
        locks == Len(recent) >= maxLoginAttempts
    IN [this |-> IF locks THEN lockAccount(kept, attemptData.userId, t) ELSE kept,
        locks |-> locks]

-----------------------------------------------------------------------------
(* Gesture complexity and analysis *)

\* The summed distance between consecutive positions, in hundredths; exact
\* for positions on one axis.
totalDistance(positions) ==
    Sum([i \in 1..(Len(positions) - 1) |->
            Isqrt(DistSq(positions[i + 1], positions[i]))])

\* Len(timing) squared times the variance of the timestamps.
timeVariance(timing) ==
    LET n == Len(timing)
    IN n * Sum([i \in 1..n |-> timing[i] * timing[i]]) - Sum(timing) * Sum(timing)

\* 1 + 0.5 * positions + 0.1 * distance + 0.01 * variance as the fraction
\* num / den, then Math.round, which rounds a half up.
RoundedComplexity(gestureData, withTiming) ==
    LET n == Len(gestureData.timing)
        den == 1000 * n * n
        num == 1000 * n * n + 500 * Len(gestureData.positions) * n * n
               + totalDistance(gestureData.positions) * n * n
               + (IF withTiming THEN 10 * timeVariance(gestureData.timing) ELSE 0)
    IN (2 * num + den) \div (2 * den)

\* A variant that returns the rounded value as it is.
calculateComplexity_unclamped(gestureData) ==
    IF Len(gestureData.timing) = 0 THEN NULL
    ELSE RoundedComplexity(gestureData, TRUE)

\* A variant without the timing factor.
calculateComplexity_noTiming(gestureData) ==
    IF Len(gestureData.timing) = 0 THEN NULL
    ELSE Min(10, Max(1, RoundedComplexity(gestureData, FALSE)))

\* calculateComplexity of the gestures router.  With no timestamps the
\* average is 0 / 0 and the result NaN (NULL here).
calculateComplexity(gestureData) ==
    IF Len(gestureData.timing) = 0 THEN NULL
    ELSE Min(10, Max(1, RoundedComplexity(gestureData, TRUE)))

\* GestureRecognition.analyzeGestureComplexity of the client: the same
\* computation with Utils.math.distance.
analyzeGestureComplexity(gestureData) ==
    IF Len(gestureData.timing) = 0 THEN NULL
    ELSE Min(10, Max(1, RoundedComplexity(gestureData, TRUE)))

\* calculateFluidityScore, in tenths.  calculateAngle(p1, p2, p3) < 90 when
\* the cosine dot / (mag1 * mag2) is positive; with a zero magnitude it is
\* NaN and the comparison false.
calculateFluidityScore(positions) ==
    LET dot(p1, p2, p3) ==
            (p2[1] - p1[1]) * (p3[1] - p2[1]) + (p2[2] - p1[2]) * (p3[2] - p2[2])
            + (p2[3] - p1[3]) * (p3[3] - p2[3])
    IN Max(0, Min(10, 10 - Cardinality({i \in 3..Len(positions) :
              dot(positions[i - 2], positions[i - 1], positions[i]) > 0})))

generateRecommendations(complexity, fluidityScore) ==
    LET found == (IF complexity < 5 THEN {"add_positions"} ELSE {})
                 \cup (IF fluidityScore < 7 THEN {"practice"} ELSE {})
    IN IF found = {} THEN {"well_balanced"} ELSE found

analyzeGesture(gestureData) ==
    LET complexity == calculateComplexity(gestureData)
        fluidityScore == calculateFluidityScore(gestureData.positions)
    IN [complexity |-> complexity,
        securityScore |-> Min(100, complexity * 10),
        fluidityScore |-> fluidityScore,
        recommendations |-> generateRecommendations(complexity, fluidityScore)]

\* Utils.validation.isValidGesture of the client.
isValidGesture(gestureData) ==
    /\ Len(gestureData.positions) >= MinPositions
    /\ Len(gestureData.positions) <= MaxPositions
    /\ Len(gestureData.timing) = Len(gestureData.positions)
    /\ LET duration == gestureData.timing[Len(gestureData.timing)] - gestureData.timing[1]
       IN duration >= MinDuration /\ duration <= MaxDuration

-----------------------------------------------------------------------------
(* Requests *)

NoResp == [kind |-> "none", attemptsRemaining |-> NULL, isValid |-> FALSE,
           confidence |-> NULL]

Resp(kind) == [NoResp EXCEPT !.kind = kind]

\* A slot holds one request: where its handler stands (pc), what it was sent
\* (route, id, input), the documents it has loaded (user, gesture), its
\* response, and, as history, whether it invoked validateGesture (reached),
\* whether the live sample is within the template's tolerances (matched),
\* whether the identity's failStreak had reached the threshold when it ran
\* (afterFive), the totalAttempts of the template as it loaded it (base), and
\* whether another request invoked validateGesture on the same template
\* between this one's load and its run (overtaken).
IdleReq ==
    [pc |-> "idle", route |-> "none", id |-> "nobody",
     input |-> SampleA, user |-> NoUser, gesture |-> NoGesture, gid |-> NoId,
     resp |-> NoResp, reached |-> FALSE, matched |-> FALSE,
     afterFive |-> FALSE, base |-> NULL, overtaken |-> FALSE]

NoEntry == [set |-> FALSE, count |-> 0, resetTime |-> 0]

NoOp == [op |-> "none", id |-> "nobody", expired |-> FALSE]

ProbeIdle ==
    [stored |-> <<>>, live |-> <<>>, tol |-> DefaultTolPosition,
     out |-> "none", success |-> "none"]

Free(r) == reqs[r].pc \in {"idle", "done"}

\* The handler has answered; its local variables are gone.
Finish(req, resp) ==
    [req EXCEPT !.pc = "done", !.resp = resp, !.input = IdleReq.input,
                !.user = NoUser, !.gesture = NoGesture]

Done(r, resp) == Finish(reqs[r], resp)

\* Whether the live sample is within the tolerances of the sample the
\* template was made from.
Matches(g, input) == gestureSuccess(g, g.gestureData.sample, input)

\* The text a stored template holds in gestureData: the ciphertext
\* encryptGestureData produces, or the JSON.stringify text the routes pass.
SeedData == {encryptGestureData(StoredSample), JSONstringify(StoredSample)}

\* What the store may hold at start: no user, a user without a template, a
\* user whose gesturePassword refers to the template.
Stores ==
    {[u |-> u, g |-> NoGesture] : u \in {NoUser, NewUser}}
    \cup {[u |-> [NewUser EXCEPT !.gesturePassword = "g1"], g |-> NewGesture("alice", d)] :
             d \in SeedData}

InitAt(store) ==
    /\ now = 0
    /\ users = [id \in Identities |-> store.u]
    /\ gestures = [k \in GIds |-> IF k = GIdSeq[1] THEN store.g ELSE NoGesture]
    /\ limiter = [ip \in Ips |-> NoEntry]
    /\ reqs = [r \in Req |-> IdleReq]
    /\ failStreak = [id \in Identities |-> 0]
    /\ lastOp = NoOp

Init ==
    /\ \E store \in Stores : InitAt(store)
    /\ probe = ProbeIdle

Tick(limit) ==
    /\ now < limit
    /\ now' = now + 1
    /\ lastOp' = NoOp
    /\ UNCHANGED <<users, gestures, limiter, reqs, failStreak, probe>>

-----------------------------------------------------------------------------
(* POST /api/auth/login *)

\* A variant that opens the next window without clearing the count.
rateLimitEntry_keepCount(entry, t) ==
    LET e1 == IF entry.set THEN entry
              ELSE [set |-> TRUE, count |-> 0, resetTime |-> t + RateWindow]
        e2 == IF t > e1.resetTime
              THEN [e1 EXCEPT !.resetTime = t + RateWindow]
              ELSE e1
    IN [e2 EXCEPT !.count = @ + 1]

\* rateLimitByUser(5, 15 min), keyed by req.ip (a login request has no
\* req.user): the entry after this request has been counted.
rateLimitEntry(entry, t) ==
    LET e1 == IF entry.set THEN entry
              ELSE [set |-> TRUE, count |-> 0, resetTime |-> t + RateWindow]
        e2 == IF t > e1.resetTime
              THEN [e1 EXCEPT !.count = 0, !.resetTime = t + RateWindow]
              ELSE e1
    IN [e2 EXCEPT !.count = @ + 1]

\* The request passes the rate limiter and enters the handler, which checks
\* the validators' result and sends User.findOne.
LoginArrive(r, ip, id, input) ==
    /\ Free(r)
    /\ limiter[ip].count < MaxRateCount
    /\ LET e == rateLimitEntry(limiter[ip], now)
           req == [IdleReq EXCEPT !.route = "login", !.id = id, !.input = input]
       IN /\ limiter' = [limiter EXCEPT ![ip] = e]
          /\ reqs' = [reqs EXCEPT ![r] =
                IF e.count > RateMax THEN Finish(req, Resp("rate_limited"))
                ELSE IF ~ValidShape(input)
                     THEN Finish(req, Resp("validation_failed"))
                ELSE [req EXCEPT !.pc = "find"]]
    /\ lastOp' = NoOp
    /\ UNCHANGED <<now, users, gestures, failStreak, probe>>

\* User.findOne(...).populate('gesturePassword') reads the store.
LoginFind(r) ==
    /\ reqs[r].pc = "find"
    /\ reqs[r].route = "login"
    /\ LET u == IF reqs[r].id \in Identities THEN users[reqs[r].id] ELSE NoUser
       IN reqs' = [reqs EXCEPT ![r] =
            [@ EXCEPT !.pc = "loaded", !.user = u, !.gesture = populate(gestures, u)]]
    /\ lastOp' = NoOp
    /\ UNCHANGED <<now, users, gestures, limiter, failStreak, probe>>

\* The rest of the handler, from the user check on.  The writes the code
\* awaits one after the other (the update of incLoginAttempts or
\* resetLoginAttempts, then user.save()) are applied here in that order.
LoginRun(r) ==
    /\ reqs[r].pc = "loaded"
    /\ reqs[r].route = "login"
    /\ LET id == reqs[r].id
           user == reqs[r].user
           g == reqs[r].gesture
           gp == user.gesturePassword
           v == validateGesture(g, reqs[r].input, now)
           seen == [reqs[r] EXCEPT !.afterFive = failStreak[id] >= LockThreshold]
           hist == [seen EXCEPT !.reached = TRUE,
                                !.matched = Matches(g, reqs[r].input)]
       IN IF ~user.exists
          THEN /\ reqs' = [reqs EXCEPT ![r] = Done(r, Resp("invalid_credentials"))]
               /\ UNCHANGED <<users, gestures, failStreak>>
          ELSE IF isLocked(user, now)
          THEN /\ reqs' = [reqs EXCEPT ![r] = Finish(seen, Resp("locked"))]
               /\ UNCHANGED <<users, gestures, failStreak>>
          ELSE IF ~g.exists
          THEN \* user.gesturePassword is null: the call raises a TypeError
               /\ reqs' = [reqs EXCEPT ![r] = Finish(seen, Resp("error"))]
               /\ UNCHANGED <<users, gestures, failStreak>>
          ELSE
               /\ failStreak' = [failStreak EXCEPT ![id] =
                     IF Matches(g, reqs[r].input) THEN 0 ELSE Min(@ + 1, LockThreshold)]
               /\ IF v.threw
                  THEN \* asyncHandler passes the exception to the error handler
                       /\ reqs' = [reqs EXCEPT ![r] =
                             Finish(hist, Resp("error"))]
                       /\ UNCHANGED <<users, gestures>>
                  ELSE /\ gestures' = [gestures EXCEPT ![gp] = saveStats(@, v.doc, v.success)]
                       /\ IF ~v.success
                          THEN /\ users' = [users EXCEPT ![id] =
                                     updateOne(@, incLoginAttempts(user, now))]
                               /\ reqs' = [reqs EXCEPT ![r] =
                                     Finish(hist, [Resp("invalid_gesture") EXCEPT
                                         !.attemptsRemaining =
                                             Max(0, 5 - user.loginAttempts - 1)])]
                          ELSE /\ users' = [users EXCEPT ![id] =
                                     [updateOne(@, resetLoginAttempts(user, now)) EXCEPT
                                         !.totalLogins = user.totalLogins + 1,
                                         !.successfulLogins = user.successfulLogins + 1]]
                               /\ reqs' = [reqs EXCEPT ![r] =
                                     Finish(hist, [Resp("ok") EXCEPT
                                         !.confidence = v.confidence])]
    /\ lastOp' = NoOp
    /\ UNCHANGED <<now, limiter, probe>>

-----------------------------------------------------------------------------
(* /api/gestures: POST /validate, POST /register, PUT /update *)

\* The auth middleware (the caller holds the token issued at registration),
\* then the handler up to its first query.
GestureArrive(r, route, id, input) ==
    /\ Free(r)
    /\ users[id].exists
    /\ LET req == [IdleReq EXCEPT !.route = route, !.id = id, !.input = input]
       IN reqs' = [reqs EXCEPT ![r] =
            IF ~users[id].isActive \/ isLocked(users[id], now)
            THEN Finish(req, Resp("unauthorized"))
            ELSE IF ~ValidShape(input)
                 THEN Finish(req, Resp("validation_failed"))
            ELSE [req EXCEPT !.pc = "find"]]
    /\ lastOp' = NoOp
    /\ UNCHANGED <<now, users, gestures, limiter, failStreak, probe>>

\* Gesture.findByUser(userId) reads the store.
GestureFind(r) ==
    /\ reqs[r].pc = "find"
    /\ reqs[r].route \in {"validate", "register", "update", "delete_gesture"}
    /\ reqs' = [reqs EXCEPT ![r] =
          [@ EXCEPT !.pc = "loaded",
                    !.gid = findByUserId(gestures, reqs[r].id),
                    !.gesture = findByUser(gestures, reqs[r].id),
                    !.base = findByUser(gestures, reqs[r].id).usageStats.totalAttempts]]
    /\ lastOp' = NoOp
    /\ UNCHANGED <<now, users, gestures, limiter, failStreak, probe>>

\* POST /validate from the 404 check on; the write of the save() that
\* validateGesture starts without awaiting it is applied here.
ValidateRun(r) ==
    /\ reqs[r].pc = "loaded"
    /\ reqs[r].route = "validate"
    /\ LET g == reqs[r].gesture
           gid == reqs[r].gid
           v == validateGesture(g, reqs[r].input, now)
           hist == [reqs[r] EXCEPT !.reached = TRUE,
                                   !.matched = Matches(g, reqs[r].input)]
           others == [q \in Req |->
                        IF /\ q # r
                           /\ reqs[q].pc = "loaded"
                           /\ reqs[q].route = "validate"
                           /\ reqs[q].gid = gid
                        THEN [reqs[q] EXCEPT !.overtaken = TRUE]
                        ELSE reqs[q]]
       IN IF ~g.exists
          THEN /\ reqs' = [reqs EXCEPT ![r] = Done(r, Resp("no_gesture"))]
               /\ UNCHANGED gestures
          ELSE IF v.threw
          THEN /\ reqs' = [others EXCEPT ![r] = Finish(hist, Resp("error"))]
               /\ UNCHANGED gestures
          ELSE /\ gestures' = [gestures EXCEPT ![gid] = saveStats(@, v.doc, v.success)]
               /\ reqs' = [others EXCEPT ![r] =
                     Finish(hist, [Resp("validated") EXCEPT
                         !.isValid = v.success,
                         !.confidence = v.confidence])]
    /\ lastOp' = NoOp
    /\ UNCHANGED <<now, users, limiter, failStreak, probe>>

\* The _id the store gives the next template.
FreeGid ==
    GIdSeq[CHOOSE i \in 1..Len(GIdSeq) :
              /\ ~gestures[GIdSeq[i]].exists
              /\ \A j \in 1..(i - 1) : gestures[GIdSeq[j]].exists]

\* POST /register from the existing-gesture check to gesture.save().  The
\* schema requires encryptionKey, iv and salt, which only the pre('save')
\* hook assigns: save() stores the new document if that hook runs before the
\* document is validated and rejects it with a ValidationError otherwise.
RegisterSave(r) ==
    /\ reqs[r].pc = "loaded"
    /\ reqs[r].route = "register"
    /\ IF reqs[r].gesture.exists
       THEN /\ reqs' = [reqs EXCEPT ![r] = Done(r, Resp("already_registered"))]
            /\ UNCHANGED gestures
       ELSE \/ /\ \E k \in GIds : ~gestures[k].exists
               /\ gestures' = [gestures EXCEPT ![FreeGid] =
                     NewGesture(reqs[r].id, JSONstringify(reqs[r].input))]
               /\ reqs' = [reqs EXCEPT ![r] = [@ EXCEPT !.pc = "link", !.gid = FreeGid]]
            \/ /\ reqs' = [reqs EXCEPT ![r] = Done(r, Resp("error"))]
               /\ UNCHANGED gestures
    /\ lastOp' = NoOp
    /\ UNCHANGED <<now, users, limiter, failStreak, probe>>

\* POST /register: User.findByIdAndUpdate sets gesturePassword, then 201.
RegisterLink(r) ==
    /\ reqs[r].pc = "link"
    /\ users' = [users EXCEPT ![reqs[r].id] = [@ EXCEPT !.gesturePassword = reqs[r].gid]]
    /\ reqs' = [reqs EXCEPT ![r] = Done(r, Resp("registered"))]
    /\ lastOp' = NoOp
    /\ UNCHANGED <<now, gestures, limiter, failStreak, probe>>

\* PUT /update from the 404 check on: gesture.gestureData =
\* JSON.stringify(gestureData), then save() writes the modified paths.
UpdateSave(r) ==
    /\ reqs[r].pc = "loaded"
    /\ reqs[r].route = "update"
    /\ IF ~reqs[r].gesture.exists
       THEN /\ reqs' = [reqs EXCEPT ![r] = Done(r, Resp("no_gesture"))]
            /\ UNCHANGED gestures
       ELSE /\ gestures' = [gestures EXCEPT ![reqs[r].gid] =
                  [@ EXCEPT !.gestureData = JSONstringify(reqs[r].input)]]
            /\ reqs' = [reqs EXCEPT ![r] = Done(r, Resp("updated"))]
    /\ lastOp' = NoOp
    /\ UNCHANGED <<now, users, limiter, failStreak, probe>>

\* DELETE /api/gestures from the 404 check on: gesture.isActive = false,
\* then save() writes the modified path.
GestureDelete(r) ==
    /\ reqs[r].pc = "loaded"
    /\ reqs[r].route = "delete_gesture"
    /\ IF ~reqs[r].gesture.exists
       THEN /\ reqs' = [reqs EXCEPT ![r] = Done(r, Resp("no_gesture"))]
            /\ UNCHANGED gestures
       ELSE /\ gestures' = [gestures EXCEPT ![reqs[r].gid] = [@ EXCEPT !.isActive = FALSE]]
            /\ reqs' = [reqs EXCEPT ![r] = Done(r, Resp("gesture_deleted"))]
    /\ lastOp' = NoOp
    /\ UNCHANGED <<now, users, limiter, failStreak, probe>>

\* DELETE /api/users/account: User.findById, user.isActive = false, then
\* save() writes the modified path.
AccountDelete(r) ==
    /\ reqs[r].pc = "find"
    /\ reqs[r].route = "delete_account"
    /\ users' = [users EXCEPT ![reqs[r].id] = [@ EXCEPT !.isActive = FALSE]]
    /\ reqs' = [reqs EXCEPT ![r] = Done(r, Resp("account_deleted"))]
    /\ lastOp' = NoOp
    /\ UNCHANGED <<now, gestures, limiter, failStreak, probe>>

-----------------------------------------------------------------------------
(* The models' instance methods called directly *)

\* user.incLoginAttempts() on a freshly loaded document.
CallIncLoginAttempts(id) ==
    /\ users[id].exists
    /\ users[id].loginAttempts < MaxLoginAttempts
    /\ users' = [users EXCEPT ![id] = updateOne(@, incLoginAttempts(@, now))]
    /\ lastOp' = [op |-> "inc", id |-> id,
                  expired |-> users[id].lockUntil # NULL /\ users[id].lockUntil < now]
    /\ UNCHANGED <<now, gestures, limiter, reqs, failStreak, probe>>

\* user.resetLoginAttempts() on a freshly loaded document.
CallResetLoginAttempts(id) ==
    /\ users[id].exists
    /\ users' = [users EXCEPT ![id] = updateOne(@, resetLoginAttempts(@, now))]
    /\ lastOp' = [NoOp EXCEPT !.op = "reset", !.id = id]
    /\ UNCHANGED <<now, gestures, limiter, reqs, failStreak, probe>>

\* gesture.comparePositions(stored, input) on a template with the probe's
\* position tolerance (out), and the value line 151 gives success when the
\* live timing is the stored timing.
CallComparePositions ==
    /\ probe.out = "none"
    /\ LET this == [NewGesture("alice", encryptGestureData(StoredSample)) EXCEPT
                       !.tolerance.position = probe.tol]
           stored == [positions |-> probe.stored, timing |-> StoredSample.timing]
           input == [positions |-> probe.live, timing |-> StoredSample.timing]
       IN probe' = [probe EXCEPT
             !.out = IF comparePositions(probe.stored, probe.live, probe.tol)
                     THEN "true" ELSE "false",
             !.success = IF gestureSuccess(this, stored, input) THEN "true" ELSE "false"]
    /\ lastOp' = [NoOp EXCEPT !.op = "compare_positions"]
    /\ UNCHANGED <<now, users, gestures, limiter, reqs, failStreak>>

\* gesture.compareTiming(stored, input) on a template with the probe's
\* timing tolerance.
CallCompareTiming ==
    /\ probe.out = "none"
    /\ probe' = [probe EXCEPT !.out =
          IF compareTiming(probe.stored, probe.live, probe.tol) THEN "true" ELSE "false"]
    /\ lastOp' = [NoOp EXCEPT !.op = "compare_timing"]
    /\ UNCHANGED <<now, users, gestures, limiter, reqs, failStreak>>

\* gesture.validateGesture(input) called on a template (this) and on a
\* second document that differs from it in usageStats only (twin);
\* decrypted is what decryptGestureData gives on the template.
CallValidateGesture ==
    /\ ~probe.done
    /\ probe' = [probe EXCEPT
          !.done = TRUE,
          !.decrypted = decryptGestureData(probe.this),
          !.result = validateGesture(probe.this, probe.input, now),
          !.twinResult = validateGesture(probe.twin, probe.input, now)]
    /\ lastOp' = [NoOp EXCEPT !.op = "validate"]
    /\ UNCHANGED <<now, users, gestures, limiter, reqs, failStreak>>

\* A call of the SecurityManager's performAntiSpoofingCheck; a rejection
\* records a security event first.
CallPerformAntiSpoofingCheck ==
    /\ ~probe.done
    /\ LET out == performAntiSpoofingCheck(probe.this, probe.gestureData)
       IN probe' = [probe EXCEPT
             !.done = TRUE,
             !.out = out,
             !.this.securityEvents =
                 IF out.event = "none" THEN @
                 ELSE Append(@, [type |-> out.event, severity |-> out.severity,
                                 reason |-> out.reason])]
    /\ lastOp' = [NoOp EXCEPT !.op = "antiSpoofing"]
    /\ UNCHANGED <<now, users, gestures, limiter, reqs, failStreak>>

\* calculateComplexity and analyzeGestureComplexity on the probe's sample
\* and on the sample with one more position (extra) appended.
CallCalculateComplexity ==
    /\ ~probe.measured
    /\ LET longer == [probe.gestureData EXCEPT !.positions = Append(@, probe.extra)]
       IN probe' = [probe EXCEPT
             !.measured = TRUE,
             !.complexity = calculateComplexity(probe.gestureData),
             !.longer = calculateComplexity(longer),
             !.client = analyzeGestureComplexity(probe.gestureData),
             !.clientLonger = analyzeGestureComplexity(longer)]
    /\ lastOp' = [NoOp EXCEPT !.op = "complexity"]
    /\ UNCHANGED <<now, users, gestures, limiter, reqs, failStreak>>

\* POST /api/gestures/analyze on the probe's sample.
CallAnalyzeGesture ==
    /\ ~probe.analyzed
    /\ probe' = [probe EXCEPT
          !.analyzed = TRUE,
          !.analysis = analyzeGesture(probe.gestureData)]
    /\ lastOp' = [NoOp EXCEPT !.op = "analyze"]
    /\ UNCHANGED <<now, users, gestures, limiter, reqs, failStreak>>

\* The client's clock; a timer that has fallen due fires before the clock
\* moves on.
ClientTick(step, limit) ==
    /\ now + step <= limit
    /\ \A i \in 1..Len(probe.timers) : probe.timers[i].due > now
    /\ now' = now + step
    /\ lastOp' = NoOp
    /\ UNCHANGED <<users, gestures, limiter, reqs, failStreak, probe>>

CallRecordSecurityEvent(eventType) ==
    /\ Len(probe.this.securityEvents) < MaxEvents
    /\ probe' = [probe EXCEPT !.this = recordSecurityEvent(@, eventType, now)]
    /\ lastOp' = [NoOp EXCEPT !.op = "recordSecurityEvent"]
    /\ UNCHANGED <<now, users, gestures, limiter, reqs, failStreak>>

CallRaiseThreatLevel(level) ==
    /\ Len(probe.this.securityEvents) < MaxEvents
    /\ probe' = [probe EXCEPT !.this = raiseThreatLevel(@, level, now)]
    /\ lastOp' = [NoOp EXCEPT !.op = "raiseThreatLevel"]
    /\ UNCHANGED <<now, users, gestures, limiter, reqs, failStreak>>

\* The security:suspiciousActivity listener.
CallHandleSuspiciousActivity(activity) ==
    /\ Len(probe.this.securityEvents) < MaxEvents
    /\ Len(probe.this.suspiciousActivities) < MaxEvents
    /\ probe' = [probe EXCEPT !.this = handleSuspiciousActivity(@, activity, now)]
    /\ lastOp' = [NoOp EXCEPT !.op = "raiseThreatLevel"]
    /\ UNCHANGED <<now, users, gestures, limiter, reqs, failStreak>>

\* The five-minute interval of startSecurityMonitoring.
CallCleanupOldData ==
    /\ probe' = [probe EXCEPT !.this = cleanupOldData(@, now)]
    /\ lastOp' = [NoOp EXCEPT !.op = "cleanupOldData"]
    /\ UNCHANGED <<now, users, gestures, limiter, reqs, failStreak>>

\* The auth:loginFailed listener, with the failure stamped now; a lock
\* starts a timer of lockoutDuration.  recorded keeps every failure.
CallRecordFailedAttempt(userId, ip) ==
    /\ Len(probe.recorded) < MaxFailures
    /\ LET attemptData == [userId |-> userId, ip |-> ip, timestamp |-> now]
           out == recordFailedAttempt(probe.this, attemptData, now)
       IN probe' = [probe EXCEPT
             !.this = out.this,
             !.timers = IF out.locks
                        THEN Append(@, [userId |-> userId, due |-> now + lockoutDuration])
                        ELSE @,
             !.recorded = Append(@, attemptData)]
    /\ lastOp' = [NoOp EXCEPT !.op = "recordFailedAttempt"]
    /\ UNCHANGED <<now, users, gestures, limiter, reqs, failStreak>>

\* The oldest unlock timer fires.
UnlockTimerFires ==
    /\ probe.timers # <<>>
    /\ Head(probe.timers).due <= now
    /\ probe' = [probe EXCEPT
          !.this = unlockAccount(@, Head(probe.timers).userId, now),
          !.timers = Tail(@)]
    /\ lastOp' = [NoOp EXCEPT !.op = "unlockAccount"]
    /\ UNCHANGED <<now, users, gestures, limiter, reqs, failStreak>>

-----------------------------------------------------------------------------
(* The client's gesture recorder *)

\* The recorder's clock counts ticks of five seconds; Date.now() is the
\* tick in milliseconds.
RecorderTickMs == 5000

EmptyGestureData == [positions |-> <<>>, timing |-> <<>>, landmarks |-> <<>>]

validateGestureData(this) ==
    LET positions == this.gestureData.positions
        timing == this.gestureData.timing
    IN /\ ~(Len(positions) < MinPositions)
       /\ ~(Len(timing) # Len(positions))
       /\ LET duration == timing[Len(timing)] - timing[1]
          IN ~(duration < MinDuration) /\ ~(duration > MaxDuration)

\* startRecording at time t (in ms): the recorder after it, what it returns,
\* and the due time of the timer it starts (NULL: none).
startRecording(this, t) ==
    IF this.isRecording
    THEN [this |-> this, returns |-> "false", timer |-> NULL]
    ELSE [this |-> [this EXCEPT !.isRecording = TRUE,
                                !.recordingStartTime = t,
                                !.gestureData = EmptyGestureData,
                                !.recordingTimeout = t + recordingTimeout],
          returns |-> "true",
          timer |-> t + recordingTimeout]

\* stopRecording: the recorder after it, what it returns, and the timer it
\* clears (NULL: none).
stopRecording(this) ==
    IF ~this.isRecording
    THEN [this |-> this, returns |-> "null", cleared |-> NULL]
    ELSE LET stopped == [this EXCEPT !.isRecording = FALSE]
         IN IF ~validateGestureData(stopped)
            THEN [this |-> stopped, returns |-> "null",
                  cleared |-> this.recordingTimeout]
            ELSE [this |-> [stopped EXCEPT !.gestureData = EmptyGestureData],
                  returns |-> "gestureData", cleared |-> this.recordingTimeout]

\* A variant that samples whether or not a recording is going on.
processHandLandmarks_unguarded(this, sampled, palmPosition, t) ==
    IF ~sampled THEN [this |-> this, returns |-> "none", cleared |-> NULL]
    ELSE LET pushed == [this EXCEPT
                 !.gestureData.positions = Append(@, palmPosition),
                 !.gestureData.timing = Append(@, t - this.recordingStartTime),
                 !.gestureData.landmarks = Append(@, <<palmPosition>>)]
         IN IF Len(pushed.gestureData.positions) >= MaxPositions
            THEN stopRecording(pushed)
            ELSE [this |-> pushed, returns |-> "none", cleared |-> NULL]

\* processHandLandmarks on a frame at time t.  sampled is the outcome of
\* currentTime % (1000 / samplingRate) < 16, which turns on the
\* milliseconds within the tick.
processHandLandmarks(this, sampled, palmPosition, t) ==
    IF ~this.isRecording \/ ~sampled
    THEN [this |-> this, returns |-> "none", cleared |-> NULL]
    ELSE LET pushed == [this EXCEPT
                 !.gestureData.positions = Append(@, palmPosition),
                 !.gestureData.timing = Append(@, t - this.recordingStartTime),
                 !.gestureData.landmarks = Append(@, <<palmPosition>>)]
         IN IF Len(pushed.gestureData.positions) >= MaxPositions
            THEN stopRecording(pushed)
            ELSE [this |-> pushed, returns |-> "none", cleared |-> NULL]

\* cleanup leaves the recording timer running.
cleanup(this) == [this EXCEPT !.isRecording = FALSE]

RecorderTick(limit) ==
    /\ now < limit
    /\ \A due \in probe.timers : due > now * RecorderTickMs
    /\ now' = now + 1
    /\ lastOp' = NoOp
    /\ UNCHANGED <<users, gestures, limiter, reqs, failStreak, probe>>

CallStartRecording ==
    /\ LET out == startRecording(probe.this, now * RecorderTickMs)
       IN probe' = [probe EXCEPT
             !.this = out.this,
             !.returned = out.returns,
             !.timers = IF out.timer = NULL THEN @ ELSE @ \cup {out.timer}]
    /\ lastOp' = [NoOp EXCEPT !.op = "startRecording"]
    /\ UNCHANGED <<now, users, gestures, limiter, reqs, failStreak>>

CallStopRecording ==
    /\ LET out == stopRecording(probe.this)
       IN probe' = [probe EXCEPT
             !.this = out.this,
             !.returned = out.returns,
             !.timers = @ \ {out.cleared}]
    /\ lastOp' = [NoOp EXCEPT !.op = "stopRecording"]
    /\ UNCHANGED <<now, users, gestures, limiter, reqs, failStreak>>

\* onResults with a hand in the frame.
Frame(sampled, palmPosition) ==
    /\ LET out == processHandLandmarks(probe.this, sampled, palmPosition,
                                       now * RecorderTickMs)
       IN probe' = [probe EXCEPT
             !.this = out.this,
             !.returned = out.returns,
             !.timers = @ \ {out.cleared}]
    /\ lastOp' = [NoOp EXCEPT !.op = "frame"]
    /\ UNCHANGED <<now, users, gestures, limiter, reqs, failStreak>>

\* A recording timer falls due: if (this.isRecording) this.stopRecording().
RecordingTimeoutFires ==
    /\ \E due \in probe.timers :
          /\ due <= now * RecorderTickMs
          /\ LET out == stopRecording(probe.this)
             IN probe' = [probe EXCEPT
                   !.this = out.this,
                   !.returned = out.returns,
                   !.timers = (@ \ {due}) \ {out.cleared}]
    /\ lastOp' = [NoOp EXCEPT !.op = "timeout"]
    /\ UNCHANGED <<now, users, gestures, limiter, reqs, failStreak>>

CallCleanup ==
    /\ probe' = [probe EXCEPT !.this = cleanup(@), !.returned = "none"]
    /\ lastOp' = [NoOp EXCEPT !.op = "cleanup"]
    /\ UNCHANGED <<now, users, gestures, limiter, reqs, failStreak>>

-----------------------------------------------------------------------------
(* The client's API.request *)

\* API.auth.login(credentials): API.request enters Utils.async.retry.
ClientLogin ==
    /\ probe.pc = "idle"
    /\ probe' = [probe EXCEPT !.pc = "fetch", !.attempt = 1]
    /\ lastOp' = [NoOp EXCEPT !.op = "login"]
    /\ UNCHANGED <<now, users, gestures, limiter, reqs, failStreak>>

\* makeRequest: one fetch and its answer.  response.ok returns the data;
\* every other answer and a timeout throw, and retry either gives up (the
\* last attempt) or waits.  The login handler answers invalid_gesture only
\* after it has awaited user.incLoginAttempts().
ClientFetch(answer) ==
    /\ probe.pc = "fetch"
    /\ probe' = [probe EXCEPT
          !.answers = Append(@, answer),
          !.charged = IF answer = "invalid_gesture" THEN @ + 1 ELSE @,
          !.pc = IF answer = "ok" THEN "returned"
                 ELSE IF probe.attempt = retryAttempts THEN "thrown"
                 ELSE "delay"]
    /\ lastOp' = [NoOp EXCEPT !.op = "fetch"]
    /\ UNCHANGED <<now, users, gestures, limiter, reqs, failStreak>>

\* Utils.async.delay(delay * 2 ^ (attempt - 1)) has elapsed.
ClientRetry ==
    /\ probe.pc = "delay"
    /\ probe' = [probe EXCEPT !.pc = "fetch", !.attempt = @ + 1]
    /\ lastOp' = [NoOp EXCEPT !.op = "retry"]
    /\ UNCHANGED <<now, users, gestures, limiter, reqs, failStreak>>

\* The middleware rateLimitByUser(5, 15 min) run on a request of key ip;
\* calls keeps, for every request, its time, the window it was counted in
\* (by its resetTime), the count after it and whether next() was called.
CallRateLimit(ip) ==
    /\ Len(probe.calls) < MaxCalls
    /\ LET e == rateLimitEntry(limiter[ip], now)
       IN /\ limiter' = [limiter EXCEPT ![ip] = e]
          /\ probe' = [probe EXCEPT !.calls =
                Append(@, [t |-> now, resetTime |-> e.resetTime, count |-> e.count,
                           passed |-> ~(e.count > RateMax)])]
    /\ lastOp' = [NoOp EXCEPT !.op = "rateLimit"]
    /\ UNCHANGED <<now, users, gestures, reqs, failStreak>>

-----------------------------------------------------------------------------
(* Specifications *)

\* POST /api/auth/login, with requests in flight side by side.
Next ==
    \/ Tick(ServerMaxTime)
    \/ \E r \in Req, ip \in Ips, id \in Identifiers, input \in LiveSamples :
          LoginArrive(r, ip, id, input)
    \/ \E r \in Req : LoginFind(r)
    \/ \E r \in Req : LoginRun(r)

Spec == Init /\ [][Next]_vars

\* The /api/gestures routes behind the auth middleware.
NextGestures ==
    \/ Tick(ServerMaxTime)
    \/ \E r \in Req, route \in {"validate", "register", "update"}, id \in Identities,
          input \in GestureSamples : GestureArrive(r, route, id, input)
    \/ \E r \in Req : GestureFind(r)
    \/ \E r \in Req : ValidateRun(r)
    \/ \E r \in Req : RegisterSave(r)
    \/ \E r \in Req : RegisterLink(r)
    \/ \E r \in Req : UpdateSave(r)

SpecGestures == Init /\ [][NextGestures]_vars

\* Deleting the template and the account, with validations alongside.
NextAccount ==
    \/ \E r \in Req, route \in {"validate", "delete_gesture", "delete_account"},
          id \in Identities : GestureArrive(r, route, id, SampleA)
    \/ \E r \in Req : GestureFind(r)
    \/ \E r \in Req : ValidateRun(r)
    \/ \E r \in Req : GestureDelete(r)
    \/ \E r \in Req : AccountDelete(r)

SpecAccount == Init /\ [][NextAccount]_vars

\* POST /api/auth/login with one request at a time, over the hours a lock
\* lasts.
NextSequentialLogin ==
    \/ Tick(MaxTime)
    \/ \E ip \in Ips, id \in Identifiers, input \in {SampleA, SampleFar} :
          LoginArrive(1, ip, id, input)
    \/ LoginFind(1)
    \/ LoginRun(1)

SpecSequentialLogin == Init /\ [][NextSequentialLogin]_vars

\* The User model's lockout methods called directly.
NextUserModel ==
    \/ Tick(MaxTime)
    \/ \E id \in Identities : CallIncLoginAttempts(id)
    \/ \E id \in Identities : CallResetLoginAttempts(id)

SpecUserModel == Init /\ [][NextUserModel]_vars

\* The login route on user documents the lockout methods have written.
NextLockedLogin ==
    \/ Tick(ServerMaxTime)
    \/ \E id \in Identities : CallIncLoginAttempts(id)
    \/ \E ip \in Ips, id \in Identities, input \in {SampleA, SampleFar} :
          LoginArrive(1, ip, id, input)
    \/ LoginFind(1)
    \/ LoginRun(1)

SpecLockedLogin == Init /\ [][NextLockedLogin]_vars

\* The Gesture model's comparePositions called directly on bounded inputs.
Points == {P0, PNear, PEdge, PFar}
Tolerances == {DefaultTolPosition, 20}

RECURSIVE SeqsUpTo(_, _)
SeqsUpTo(S, n) ==
    IF n = 0 THEN {<<>>}
    ELSE LET shorter == SeqsUpTo(S, n - 1)
         IN shorter \cup {Append(q, x) : q \in {t \in shorter : Len(t) = n - 1}, x \in S}

InitProbe ==
    /\ InitAt([u |-> NoUser, g |-> NoGesture])
    /\ \E stored \in SeqsUpTo(Points, MaxLen), live \in SeqsUpTo(Points, MaxLen),
          tol \in Tolerances :
          probe = [ProbeIdle EXCEPT !.stored = stored, !.live = live, !.tol = tol]

NextProbe == CallComparePositions

SpecMatcher == InitProbe /\ [][NextProbe]_vars

\* The Gesture model's compareTiming called directly on bounded inputs.
Times == {0, 500, 600, 700}
TimingTolerances == {DefaultTolTiming, 10}

InitTiming ==
    /\ InitAt([u |-> NoUser, g |-> NoGesture])
    /\ \E stored \in SeqsUpTo(Times, MaxLen), live \in SeqsUpTo(Times, MaxLen),
          tol \in TimingTolerances :
          probe = [ProbeIdle EXCEPT !.stored = stored, !.live = live, !.tol = tol]

NextTiming == CallCompareTiming

SpecTiming == InitTiming /\ [][NextTiming]_vars

\* The Gesture model's validateGesture called directly on templates that
\* have been used before.
UsedStats ==
    {[totalAttempts |-> n, successfulAttempts |-> k, failedAttempts |-> n - k,
      lastUsed |-> IF n = 0 THEN NULL ELSE 0] : n \in 0..MaxUses, k \in 0..MaxUses}

InitValidate ==
    /\ InitAt([u |-> NoUser, g |-> NoGesture])
    /\ \E data \in SeedData, input \in {SampleA, SampleFar},
          stats \in {u \in UsedStats : u.failedAttempts >= 0},
          other \in {u \in UsedStats : u.failedAttempts >= 0} :
          LET this == [NewGesture("alice", data) EXCEPT !.usageStats = stats]
          IN probe = [this |-> this,
                      twin |-> [this EXCEPT !.usageStats = other],
                      input |-> input,
                      done |-> FALSE,
                      decrypted |-> [threw |-> FALSE, value |-> input],
                      result |-> ValidationThrew(this),
                      twinResult |-> ValidationThrew(this)]

NextValidate == CallValidateGesture

SpecValidate == InitValidate /\ [][NextValidate]_vars

\* The SecurityManager's performAntiSpoofingCheck called directly, with the
\* check switched on or off in the settings.
\* The gestureData arguments: each of depthData, motionData and timingData
\* is present or not, and a field that is absent carries no data.
GestureDatas ==
    {g \in [hasDepth : BOOLEAN,
            depthData : {<<0, 0, 0>>, <<0, 50, 0>>, <<>>},
            hasMotion : BOOLEAN,
            motionData : {<<P0, P0, P0>>, <<P0, PFar, P0>>,
                          <<P0, <<20000, 0, 0>>, P0>>, <<>>},
            hasTiming : BOOLEAN,
            timingData : {<<0, 100, 200>>, <<0, 500, 1000>>, <<0, 400, 1000>>,
                          <<500, 500, 500>>, <<100, 200, 300>>, <<0>>, <<>>}] :
        /\ ~g.hasDepth => g.depthData = <<>>
        /\ ~g.hasMotion => g.motionData = <<>>
        /\ ~g.hasTiming => g.timingData = <<>>}

InitAntiSpoofing ==
    /\ InitAt([u |-> NoUser, g |-> NoGesture])
    /\ \E enabled \in BOOLEAN, gestureData \in GestureDatas :
          probe = [this |-> [antiSpoofingEnabled |-> enabled, securityEvents |-> <<>>],
                   gestureData |-> gestureData,
                   done |-> FALSE,
                   out |-> Verdict(TRUE, "none", NotSuspicious)]

NextAntiSpoofing == CallPerformAntiSpoofingCheck

SpecAntiSpoofing == InitAntiSpoofing /\ [][NextAntiSpoofing]_vars

\* calculateComplexity and POST /api/gestures/analyze on samples that pass
\* the routes' validators: positions on one axis and non-decreasing
\* timestamps, MinPositions to MaxFrames of each.
ComplexityPoints == {P0, PEdge, <<2000, 0, 0>>}

Frames(S) == {q \in SeqsUpTo(S, MaxFrames) : Len(q) >= MinPositions}

InitComplexity ==
    /\ InitAt([u |-> NoUser, g |-> NoGesture])
    /\ \E positions \in Frames(ComplexityPoints),
          timing \in {t \in Frames({0, 10, 1000}) :
                        \A i \in 2..Len(t) : t[i - 1] <= t[i]},
          extra \in ComplexityPoints :
          probe = [gestureData |-> [positions |-> positions, timing |-> timing],
                   extra |-> extra,
                   measured |-> FALSE, complexity |-> NULL, longer |-> NULL,
                   client |-> NULL, clientLonger |-> NULL,
                   analyzed |-> FALSE,
                   analysis |-> [complexity |-> NULL, securityScore |-> NULL,
                                 fluidityScore |-> NULL, recommendations |-> {}]]

NextComplexity ==
    \/ CallCalculateComplexity
    \/ CallAnalyzeGesture

SpecComplexity == InitComplexity /\ [][NextComplexity]_vars

\* The SecurityManager's event log and threat level over days.
InitSecurity ==
    /\ InitAt([u |-> NoUser, g |-> NoGesture])
    /\ probe = [this |-> NewSecurityManager, timers |-> <<>>, recorded |-> <<>>]

NextSecurityLog ==
    \/ ClientTick(CleanupAge, MaxDays * CleanupAge)
    \/ CallRecordSecurityEvent("login_failed")
    \/ \E level \in {"low", "medium", "high", "critical", "severe"} :
          CallRaiseThreatLevel(level)
    \/ \E severity \in {"low", "medium", "high"} :
          CallHandleSuspiciousActivity([type |-> "bot_detected", severity |-> severity])
    \/ CallCleanupOldData

SpecSecurityLog == InitSecurity /\ [][NextSecurityLog]_vars

\* The SecurityManager's lockout over the minutes after a run of failures.
NextLockout ==
    \/ ClientTick(1, MaxClientTime)
    \/ \E id \in Identities, ip \in Ips : CallRecordFailedAttempt(id, ip)
    \/ UnlockTimerFires
    \/ CallCleanupOldData

SpecLockout == InitSecurity /\ [][NextLockout]_vars

\* One API.auth.login call of the client against the login endpoint, which
\* answers each request with one of its responses, or not in time.
InitClient ==
    /\ InitAt([u |-> NoUser, g |-> NoGesture])
    /\ probe = [pc |-> "idle", attempt |-> 0, answers |-> <<>>, charged |-> 0]

NextClient ==
    \/ ClientLogin
    \/ \E answer \in {"ok", "invalid_gesture", "locked", "rate_limited", "error",
                      "timeout"} : ClientFetch(answer)
    \/ ClientRetry

SpecClient == InitClient /\ [][NextClient]_vars

\* The rate limiter of the login route called directly.
InitRateLimit ==
    /\ InitAt([u |-> NoUser, g |-> NoGesture])
    /\ probe = [calls |-> <<>>]

NextRateLimit ==
    \/ Tick(ServerMaxTime)
    \/ \E ip \in Ips : CallRateLimit(ip)

SpecRateLimit == InitRateLimit /\ [][NextRateLimit]_vars

\* The gesture recorder under frames, start, stop, the recording timer and
\* cleanup.  recordingTimeout is the due time of the timer startRecording
\* set last (NULL: none).
InitRecorder ==
    /\ InitAt([u |-> NoUser, g |-> NoGesture])
    /\ probe = [this |-> [isRecording |-> FALSE, recordingStartTime |-> 0,
                          gestureData |-> EmptyGestureData,
                          recordingTimeout |-> NULL],
                 timers |-> {}, returned |-> "none"]

NextRecorder ==
    \/ RecorderTick(MaxRecorderTime)
    \/ CallStartRecording
    \/ CallStopRecording
    \/ \E sampled \in BOOLEAN : Frame(sampled, P0)
    \/ RecordingTimeoutFires
    \/ CallCleanup

SpecRecorder == InitRecorder /\ [][NextRecorder]_vars

-----------------------------------------------------------------------------
(* Properties *)

\* The step in which request r's handler goes from the documents it loaded
\* to its response.
Ran(r, route) ==
    /\ reqs[r].pc = "loaded"
    /\ reqs[r].route = route
    /\ reqs'[r].pc = "done"

\* C1: once five consecutive login validations of samples outside the
\* tolerances have been made for an identity, a later login for it, whatever
\* its sample, is answered account-locked while the lock duration has not
\* elapsed.
C1_LockedAfterFiveFailures ==
    \A r \in Req :
        (/\ reqs[r].pc = "done"
         /\ reqs[r].route = "login"
         /\ reqs[r].afterFive
         /\ now < LockDuration)
        => reqs[r].resp.kind = "locked"

\* C2: a login whose user document has lockUntil in the future is answered
\* account-locked without validateGesture being invoked, and changes neither
\* the user documents (loginAttempts, lockUntil, lastLogin) nor the
\* templates (usageStats).
C2_LockedLoginRejected ==
    [][\A r \in Req :
         (/\ Ran(r, "login")
          /\ reqs[r].user.exists
          /\ reqs[r].user.lockUntil # NULL
          /\ reqs[r].user.lockUntil > now)
         => /\ reqs'[r].resp.kind = "locked"
            /\ ~reqs'[r].reached
            /\ users' = users
            /\ gestures' = gestures]_vars

\* A login answered account-locked for an identity that is locked after
\* five failures.
C2_Witness ==
    /\ reqs[1].pc = "done"
    /\ reqs[1].resp.kind = "locked"
    /\ users["alice"].loginAttempts >= LockThreshold
    /\ users["alice"].lockUntil > now

\* C3: a login that invokes validateGesture with a sample within the
\* template's tolerances leaves the identity with loginAttempts 0, lockUntil
\* null and lastLogin the current time.
C3_SuccessResets ==
    [][\A r \in Req :
         (Ran(r, "login") /\ reqs'[r].reached /\ reqs'[r].matched)
         => /\ users'[reqs[r].id].loginAttempts = 0
            /\ users'[reqs[r].id].lockUntil = NULL
            /\ users'[reqs[r].id].lastLogin = now]_vars

\* C4: incLoginAttempts on a document whose lockUntil is set and in the past
\* leaves loginAttempts 1 and lockUntil null; and whenever incLoginAttempts
\* sets lockUntil, the counter it leaves has reached the threshold.  (A
\* lockUntil equal to the current time is not in the past: isLocked is
\* false there and incLoginAttempts increments.)
C4_ExpiredLockRestartsCounter ==
    [][\A id \in Identities :
         (lastOp'.op = "inc" /\ lastOp'.id = id)
         => /\ (users[id].lockUntil # NULL /\ users[id].lockUntil < now)
                => (users'[id].loginAttempts = 1 /\ users'[id].lockUntil = NULL)
            /\ (users'[id].lockUntil # NULL /\ users'[id].lockUntil # users[id].lockUntil)
                => users'[id].loginAttempts >= LockThreshold]_vars

\* incLoginAttempts has just run on an expired lock and restarted the counter.
C4_Witness ==
    /\ lastOp.op = "inc"
    /\ lastOp.expired
    /\ users["alice"].loginAttempts = 1
    /\ users["alice"].lockUntil = NULL

\* C5: a login that invokes validateGesture with a sample outside the
\* tolerances reports attemptsRemaining = max(0, 5 - loginAttempts), with
\* loginAttempts the stored value after the failure.
C5_AttemptsRemaining ==
    [][\A r \in Req :
         (Ran(r, "login") /\ reqs'[r].reached /\ ~reqs'[r].matched)
         => reqs'[r].resp.attemptsRemaining =
                Max(0, LockThreshold - users'[reqs[r].id].loginAttempts)]_vars

\* C6: a failing login that runs while another login for the same identity
\* is in flight raises loginAttempts by exactly one (or restarts it at 1),
\* and leaves lockUntil set once loginAttempts has reached 5.
C6_ConcurrentFailuresSerialisable ==
    [][\A r \in Req :
         (/\ Ran(r, "login") /\ reqs'[r].reached /\ ~reqs'[r].matched
          /\ \E q \in Req \ {r} : /\ reqs[q].route = "login"
                                    /\ reqs[q].id = reqs[r].id
                                    /\ reqs[q].pc \in {"find", "loaded"})
         => /\ users'[reqs[r].id].loginAttempts
                  \in {users[reqs[r].id].loginAttempts + 1, 1}
            /\ users'[reqs[r].id].loginAttempts >= LockThreshold
                  => users'[reqs[r].id].lockUntil # NULL]_vars

\* C7: every validate call raises the template's totalAttempts by one and
\* successfulAttempts (sample within the tolerances) or failedAttempts
\* (otherwise) by one, so that successfulAttempts + failedAttempts =
\* totalAttempts = the number of calls.
C7_StatsCountEveryValidate ==
    [][\A r \in Req :
         (Ran(r, "validate") /\ reqs'[r].reached)
         => LET old == gestures[reqs[r].gid].usageStats
                new == gestures'[reqs[r].gid].usageStats
            IN /\ new.totalAttempts = old.totalAttempts + 1
               /\ new.successfulAttempts =
                     old.successfulAttempts + (IF reqs'[r].matched THEN 1 ELSE 0)
               /\ new.failedAttempts =
                     old.failedAttempts + (IF reqs'[r].matched THEN 0 ELSE 1)]_vars

\* C8: when a validate request runs after another ran on the same template
\* since this one loaded it, the stored totalAttempts is then at least 2
\* above the value this one loaded.
C8_NoLostStatsUpdate ==
    [][\A r \in Req :
         (Ran(r, "validate") /\ reqs'[r].reached /\ reqs[r].overtaken)
         => gestures'[reqs[r].gid].usageStats.totalAttempts >= reqs[r].base + 2]_vars

\* C9: a validate request that invokes validateGesture is answered with
\* isValid = (positions within tolerance and timing within tolerance).
C9_SuccessIsPositionAndTiming ==
    \A r \in Req :
        (reqs[r].pc = "done" /\ reqs[r].route = "validate" /\ reqs[r].reached)
        => /\ reqs[r].resp.kind = "validated"
           /\ reqs[r].resp.isValid = reqs[r].matched

\* C10: comparePositions returns false exactly when some index up to the
\* shorter length has a distance above the position tolerance (indexes past
\* the shorter length play no part), and success is then false; with
\* tolerance 0.15, stored (0,0,0) and live (0,0.2,0) at a compared index give
\* false.
C10_PositionMatch ==
    probe.out # "none" =>
        LET n == Min(Len(probe.stored), Len(probe.live))
            far == \E i \in 1..n :
                      DistSq(probe.stored[i], probe.live[i]) > probe.tol * probe.tol
        IN /\ (probe.out = "false") <=> far
           /\ probe.out = "false" => probe.success = "false"
           /\ (/\ probe.tol = DefaultTolPosition
               /\ \E i \in 1..n : probe.stored[i] = P0 /\ probe.live[i] = PFar)
              => probe.out = "false"

\* The example of C10 at the second index, with a third live position that
\* has no stored counterpart.
C10_Witness ==
    /\ probe.stored = <<P0, P0>>
    /\ probe.live = <<P0, PFar, PEdge>>
    /\ probe.tol = DefaultTolPosition
    /\ probe.out = "false"
    /\ probe.success = "false"

\* C11: compareTiming returns false exactly when some index up to the
\* shorter length has |stored[i] - live[i]| / stored[i] above the timing
\* tolerance, where a zero stored timestamp passes with a zero live
\* timestamp and fails with any other.
C11_TimingMatch ==
    probe.out # "none" =>
        LET n == Min(Len(probe.stored), Len(probe.live))
            far == \E i \in 1..n :
                      IF probe.stored[i] = 0
                      THEN probe.live[i] # 0
                      ELSE Abs(probe.stored[i] - probe.live[i]) * 100
                               > probe.tol * probe.stored[i]
        IN (probe.out = "false") <=> far

\* A zero stored timestamp met by a non-zero live one, after an index where
\* both are zero.
C11_Witness ==
    /\ probe.stored = <<0, 0, 500>>
    /\ probe.live = <<0, 500, 500>>
    /\ probe.tol = DefaultTolTiming
    /\ probe.out = "false"

\* C12: a validate request whose live sample is the sample its template
\* holds is answered with a result, isValid true and confidence 1.0 (100
\* hundredths).
C12_IdenticalSampleValidates ==
    [][\A r \in Req :
         (/\ Ran(r, "validate")
          /\ reqs'[r].reached
          /\ reqs[r].input = reqs[r].gesture.gestureData.sample)
         => /\ reqs'[r].resp.kind = "validated"
            /\ reqs'[r].resp.isValid
            /\ reqs'[r].resp.confidence = 100]_vars

\* C13: decryptGestureData gives back the sample encryptGestureData was
\* given, and the gestureData a register or an update request persists is
\* text decryptGestureData accepts, holding the request's sample.
C13_StoredFormRoundTrips ==
    [][\A r \in Req :
         LET stored == reqs[r].pc = "loaded" /\ reqs[r].route \in {"register", "update"}
                       /\ reqs'[r].pc \in {"link", "done"}
                       /\ gestures' # gestures
             trip == decryptGestureData(
                         NewGesture(reqs[r].id, encryptGestureData(reqs[r].input)))
             kept == decryptGestureData(gestures'[reqs'[r].gid])
         IN stored => /\ ~trip.threw /\ trip.value = reqs[r].input
                      /\ ~kept.threw /\ kept.value = reqs[r].input]_vars

\* C14: on a template whose gestureData is not text decryptGestureData can
\* decipher, decryptGestureData throws rather than hand back data, and
\* validateGesture throws rather than return {success, confidence} and
\* leaves usageStats as they were.
C14_CorruptTemplateFails ==
    (probe.done /\ probe.this.gestureData.form # "cipher")
    => /\ probe.decrypted.threw
       /\ probe.result.threw
       /\ probe.result.doc.usageStats = probe.this.usageStats

\* validateGesture has been called on a used template holding plain JSON.
C14_Witness ==
    /\ probe.done
    /\ probe.this.gestureData = JSONstringify(StoredSample)
    /\ probe.this.usageStats.totalAttempts > 0
    /\ probe.result.threw

\* C15: no request whose sample has positions and timing of different
\* lengths, or a duration timing[N] - timing[1] outside 1000..10000 ms, gets
\* past the validators of its route.
C15_ShapeRejected ==
    \A r \in Req :
        reqs[r].pc \in {"find", "loaded", "link"}
        => LET timing == reqs[r].input.timing
               duration == timing[Len(timing)] - timing[1]
           IN /\ Len(reqs[r].input.positions) = Len(timing)
              /\ duration >= 1000
              /\ duration <= 10000

AsGestureData(input) ==
    [hasDepth |-> FALSE, depthData |-> <<>>,
     hasMotion |-> TRUE, motionData |-> input.positions,
     hasTiming |-> TRUE, timingData |-> input.timing]

\* C17: a login whose sample the anti-spoofing check rejects is answered
\* without validateGesture being called and without changing the user's
\* loginAttempts or lockUntil.
C17_SpoofedLoginRejectedEarly ==
    [][\A r \in Req :
         (/\ Ran(r, "login")
          /\ reqs[r].user.exists
          /\ ~performAntiSpoofingCheck([antiSpoofingEnabled |-> TRUE,
                                        securityEvents |-> <<>>],
                                       AsGestureData(reqs[r].input)).pass)
         => /\ ~reqs'[r].reached
            /\ users' = users]_vars

\* All frames of a timing sequence of at least three entries are the same
\* interval apart.
EqualIntervals(timingData) ==
    /\ Len(timingData) >= 3
    /\ \A i \in 2..Len(timingData) :
          timingData[i] - timingData[i - 1] = timingData[2] - timingData[1]

\* C18: timing data whose frames are all the same interval apart makes the
\* check fail with a too_perfect_timing event of severity high.
C18_PerfectTimingFlagged ==
    (/\ probe.done
     /\ probe.this.antiSpoofingEnabled
     /\ ~probe.gestureData.hasDepth
     /\ probe.gestureData.hasMotion
     /\ ~analyzeMotionPatterns(probe.gestureData.motionData).suspicious
     /\ probe.gestureData.hasTiming
     /\ EqualIntervals(probe.gestureData.timingData))
    => /\ ~probe.out.pass
       /\ probe.out.reason = "too_perfect_timing"
       /\ probe.out.severity = "high"

\* C19: when the check is on and motionData or timingData is missing, so
\* that a component throws, the check does not pass.
C19_InternalErrorNeverPasses ==
    (/\ probe.done
     /\ probe.this.antiSpoofingEnabled
     /\ ~probe.gestureData.hasMotion \/ ~probe.gestureData.hasTiming)
    => ~probe.out.pass

\* C21: the complexity score is an integer from 1 to 10, and appending a
\* position that differs from the last one, the timestamps unchanged, never
\* lowers it; the same for the client's analyzeGestureComplexity.
C21_ComplexityRangeMonotone ==
    probe.measured =>
        /\ probe.complexity \in 1..10
        /\ probe.longer \in 1..10
        /\ probe.client \in 1..10
        /\ probe.extra # probe.gestureData.positions[Len(probe.gestureData.positions)]
           => /\ probe.longer >= probe.complexity
              /\ probe.clientLonger >= probe.client

C21_Witness ==
    /\ probe.measured
    /\ probe.extra # probe.gestureData.positions[Len(probe.gestureData.positions)]
    /\ probe.complexity > 1
    /\ probe.longer > probe.complexity
    /\ probe.longer < 10

\* C30: for a sample of 3 to 10 positions whose timestamps span at least
\* 1000 ms, the complexity is 10, the security score 100, and the
\* recommendations do not ask for more positions.
C30_AdmissibleSampleIsMaximal ==
    (/\ probe.analyzed
     /\ isValidGesture(probe.gestureData))
    => /\ probe.analysis.complexity = 10
       /\ probe.analysis.securityScore = 100
       /\ "add_positions" \notin probe.analysis.recommendations

C30_Witness ==
    /\ probe.analyzed
    /\ isValidGesture(probe.gestureData)
    /\ probe.gestureData.positions = <<P0, P0, P0>>
    /\ probe.analysis.securityScore = 100

\* C22: once an identity's account has been deleted, findByUser returns no
\* template for it (the template is flagged inactive), and no template
\* record is ever removed from the store.
C22_AccountDeletionDeactivatesTemplate ==
    \A id \in Identities :
        (users[id].exists /\ ~users[id].isActive) => ~findByUser(gestures, id).exists

\* C23: an event that is in the security log stays in it unaltered, whatever
\* is called next, and carries the threat level of the moment it was
\* recorded.
C23_EventLogAppendOnly ==
    [][LET old == probe.this.securityEvents
           new == probe'.this.securityEvents
       IN /\ Len(new) >= Len(old)
          /\ \A i \in 1..Len(old) : new[i] = old[i]
          /\ Len(new) > Len(old) => new[Len(new)].threatLevel = probe'.this.threatLevel]_vars

\* The threat_level_raised events in a log.
Raised(events) ==
    Cardinality({i \in 1..Len(events) : events[i].type = "threat_level_raised"})

\* C28: the threat level is one of low, medium, high and critical and never
\* goes down; a call of raiseThreatLevel changes it only to a higher level
\* and records one threat_level_raised event exactly when it changes it.
C28_ThreatLevelOnlyRises ==
    [][/\ indexOf(probe.this.threatLevel) >= 1
       /\ indexOf(probe'.this.threatLevel) >= indexOf(probe.this.threatLevel)
       /\ lastOp'.op = "raiseThreatLevel" =>
             Raised(probe'.this.securityEvents) =
                 Raised(probe.this.securityEvents)
                 + (IF probe'.this.threatLevel # probe.this.threatLevel THEN 1 ELSE 0)]_vars

C28_Witness ==
    /\ lastOp.op = "raiseThreatLevel"
    /\ probe.this.threatLevel = "high"
    /\ Raised(probe.this.securityEvents) = 2

\* C27: isAccountLocked(userId) is true exactly when at least
\* maxLoginAttempts failures recorded for the user are younger than
\* lockoutDuration, after any run of recordFailedAttempt calls and unlock
\* timers.
C27_LockedIffRecentFailures ==
    \A id \in Identities :
        isAccountLocked(probe.this, id, now)
        <=> Len(After(probe.recorded, now - lockoutDuration)) >= maxLoginAttempts

C26_RateLimitPerWindow ==
    \A i \in 1..Len(probe.calls) :
        LET call == probe.calls[i]
            before == {j \in 1..i : probe.calls[j].resetTime = call.resetTime}
        IN /\ call.passed <=> Cardinality(before) <= RateMax
           /\ i > 1 =>
                 IF call.t > probe.calls[i - 1].resetTime
                 THEN call.count = 1 /\ call.resetTime = call.t + RateWindow
                 ELSE call.resetTime = probe.calls[i - 1].resetTime

C26_Witness ==
    \E i \in 1..Len(probe.calls) :
        /\ ~probe.calls[i].passed
        /\ \E j \in (i + 1)..Len(probe.calls) :
              probe.calls[j].count = 1 /\ probe.calls[j].passed

\* C29: positions, timing and landmarks of the recorder have equal lengths
\* of at most maxPositions; a sample is appended only while isRecording;
\* startRecording during a recording returns false and leaves the data as it
\* is; the sample that brings the recording to maxPositions stops it.
C29_RecorderInvariants ==
    [][LET old == probe.this.gestureData
           new == probe'.this.gestureData
       IN /\ Len(new.positions) = Len(new.timing)
          /\ Len(new.positions) = Len(new.landmarks)
          /\ Len(new.positions) <= MaxPositions
          /\ Len(new.positions) > Len(old.positions) => probe.this.isRecording
          /\ (lastOp'.op = "startRecording" /\ probe.this.isRecording)
             => /\ probe'.returned = "false"
                /\ probe'.this = probe.this
          /\ (/\ lastOp'.op = "frame"
              /\ probe.this.isRecording
              /\ Len(old.positions) = MaxPositions - 1
              /\ new # old)
             => ~probe'.this.isRecording]_vars

C29_Witness ==
    /\ lastOp.op = "frame"
    /\ ~probe.this.isRecording
    /\ Len(probe.this.gestureData.positions) = MaxPositions
    /\ Len(probe.this.gestureData.timing) = MaxPositions

====
